---- MODULE Spec2Model ----
(***************************************************************************)
(* Model of the reporting pipeline of rust-metrics:                        *)
(*   src/src/reporter/prometheus.rs  PrometheusReporter, collect_to_send   *)
(*   src/src/reporter/console.rs     ConsoleReporter                       *)
(*                                                                         *)
(* One PrometheusReporter instance is modelled together with every channel *)
(* and export thread its start() calls create, and one ConsoleReporter     *)
(* with its export thread.  The wall-clock timestamp that make_metric      *)
(* stores in each member is left out: no property below reads it.          *)
(*                                                                         *)
(* Three specifications share the definitions:                             *)
(*   Spec         the PrometheusReporter API calls running concurrently    *)
(*                with the export threads;                                 *)
(*   CollectSpec  collect_to_send and the export loop applied to every     *)
(*                queue content of bounded length, with the shared metric  *)
(*                values changing underneath;                              *)
(*   ConsoleSpec  the ConsoleReporter and its export thread.               *)
(***************************************************************************)
EXTENDS Naturals, Sequences, FiniteSets, TLC

(* ------------------------------ bounds --------------------------------- *)
\* start() calls on the Prometheus reporter (each creates a channel and a thread)
MaxStarts == 2
\* add() calls on the Prometheus reporter
MaxAdds == 2
\* hand-offs to the sink recorded per export thread
MaxCycles == 2
\* largest value a live counter or gauge takes
MaxValue == 1
\* add() calls on the console reporter
MaxMetrics == 2
\* ticks of the console export loop
MaxTicks == 2

(* ----------------------------- vocabulary ------------------------------ *)
Names == {"requests", "errors"}
Kinds == {"Counter", "Gauge", "Meter", "Histogram"}
\* HashMap<String, String> label sets, as sets of <<name, value>> pairs.  Each
\* holds at most one pair, so the iteration order of the map is unique.
LabelSets == {{}, {<<"env", "prod">>}}
\* the kinds whose snapshot carries a number that the reporters read
Numeric == {"Counter", "Gauge", "Meter"}
Chans == 1..MaxStarts
\* the kinds whose shared object the producer changes after handing it over
Mutable == {"Counter", "Gauge"}
\* (metric, labels) argument pairs of the submissions the specifications make:
\* every kind and every label set occurs
MetricArgs == {<<"Counter", {}>>,
               <<"Gauge", {<<"env", "prod">>}>>,
               <<"Meter", {}>>,
               <<"Histogram", {<<"env", "prod">>}>>}
\* add() arguments of Spec, whose entries cross the channel while the API is
\* still being called: two names, one of them used twice with different kinds
Submissions == {<<"requests", "Counter", {}>>,
                <<"requests", "Gauge", {<<"env", "prod">>}>>,
                <<"errors", "Meter", {}>>}
\* queue contents of CollectSpec: every sequence of at most MaxAdds submissions
\* of a name with one of the argument pairs
QueueInputs ==
  UNION {[1..n -> {<<name, m[1], m[2]>> : name \in Names, m \in MetricArgs}] :
           n \in 0..MaxAdds}
\* every add() argument triple; the properties of add range over all of them
AddArgs == Names \X Kinds \X LabelSets

\* the two reporter types
Reporters == {"ConsoleReporter", "PrometheusReporter"}
\* the reporter_name argument each reporter's new is called with
NameGiven == [r \in Reporters |->
                IF r = "ConsoleReporter" THEN "console" ELSE "prometheus"]
\* the reporter types with an `impl Reporter` block, which is what gives a type
\* the method get_unique_reporter_name (console.rs:17); prometheus.rs has none
ReporterImpls == {"ConsoleReporter"}

\* Err(String) payloads of PrometheusReporter::add
NotStarted == "Please start the reporter before trying to add to it"
ChannelClosed == "Unable to send"

VARIABLES
  tx,            \* PrometheusReporter.tx: 0 is None, c is Some(sender of channel c)
  dropped,       \* the PrometheusReporter value has gone out of scope
  ret,           \* what the last add() call returned ("none" before the first)
  chan,          \* chan[c]: entries sent on channel c and not yet received
  pc,            \* pc[c]: position of the export thread that owns receiver c
  entries_group, \* entries_group[c]: the HashMap of collect_to_send
  families,      \* families[c]: the Vec of collect_to_send
  drained,       \* drained[c]: the entries thread c received in this cycle, in order
  sink,          \* sink[c]: every list handed to prometheus_reporter.add, in order
  closedSeen,    \* closedSeen[c]: the receiver iterator of thread c has ended
  nAdds,         \* add() calls made so far
  starts,        \* start() calls made so far
  live,          \* live[k]: current value of the shared metric object of kind k
  metrics,       \* ConsoleReporter.metrics
  cpc,           \* position of the ConsoleReporter and of its export thread
  cidx,          \* console thread: index of the next metric of the for loop
  out,           \* console thread: the lines printed so far in this tick
  ticks,         \* console thread: ticks completed
  added,         \* console: value of each metric when it was added
  reporter_name  \* reporter_name[r]: the reporter_name field of reporter r

pvars == <<tx, dropped, ret, chan, pc, entries_group, families, drained, sink,
           closedSeen, nAdds, starts>>
cvars == <<metrics, cpc, cidx, out, ticks, added>>
vars == <<pvars, cvars, live, reporter_name>>

EmptyMap == [n \in {} |-> <<>>]

(* --------------------------- channel ends ------------------------------ *)
\* The only Sender of channel c is the one stored in self.tx (line 69); it lives
\* until self.tx is overwritten by a later start() or the reporter is dropped.
SenderAlive(c) == ~dropped /\ tx = c

\* The Receiver of channel c is owned by the closure of thread c (line 71) and
\* lives as long as that thread does.
ReceiverAlive(c) == pc[c] \notin {"unspawned", "dead"}

(* ------------------------- pure helper functions ----------------------- *)
\* The entry built by add (lines 54-58).  id is the index of the add call: the
\* source has no such field, it only tells entries apart in the properties.
PrometheusMetricEntry(id, name, metric, labels) ==
  [id |-> id, name |-> name, metric |-> metric, labels |-> labels]

\* x.snapshot().value of the shared metric object (lines 106, 113)
snapshot(k) == live[k]

\* to_repeated_fields_labels: one LabelPair per map entry, pushed in iteration order
RECURSIVE to_repeated_fields_labels(_)
to_repeated_fields_labels(labels) ==
  IF labels = {} THEN <<>>
  ELSE LET pair == CHOOSE p \in labels : TRUE
       IN  <<[name |-> pair[1], value |-> pair[2]]>>
             \o to_repeated_fields_labels(labels \ {pair})

\* make_metric whose Gauge arm fills the counter field of the member:
\* pb_metric.set_counter(..) with the gauge's value at line 115
make_metric_GaugeAsCounter(e) ==
  LET lbl == to_repeated_fields_labels(e.labels)
  IN  CASE e.metric = "Counter" ->
             <<[src |-> e.id, label |-> lbl, field |-> "counter",
                payload |-> <<snapshot("Counter")>>], "COUNTER">>
        [] e.metric = "Gauge" ->
             <<[src |-> e.id, label |-> lbl, field |-> "counter",
                payload |-> <<snapshot("Gauge")>>], "GAUGE">>
        [] e.metric = "Meter" ->
             <<[src |-> e.id, label |-> lbl, field |-> "summary",
                payload |-> <<>>], "SUMMARY">>
        [] e.metric = "Histogram" ->
             <<[src |-> e.id, label |-> lbl, field |-> "histogram",
                payload |-> <<>>], "HISTOGRAM">>

\* make_metric: <<pb_metric, MetricType>> of one entry.  payload is <<v>> for a set
\* counter or gauge value and <<>> for the empty Summary / Histogram message.
make_metric(e) ==
  LET lbl == to_repeated_fields_labels(e.labels)
  IN  CASE e.metric = "Counter" ->
             <<[src |-> e.id, label |-> lbl, field |-> "counter",
                payload |-> <<snapshot("Counter")>>], "COUNTER">>
        [] e.metric = "Gauge" ->
             <<[src |-> e.id, label |-> lbl, field |-> "gauge",
                payload |-> <<snapshot("Gauge")>>], "GAUGE">>
        [] e.metric = "Meter" ->
             <<[src |-> e.id, label |-> lbl, field |-> "summary",
                payload |-> <<>>], "SUMMARY">>
        [] e.metric = "Histogram" ->
             <<[src |-> e.id, label |-> lbl, field |-> "histogram",
                payload |-> <<>>], "HISTOGRAM">>

\* format!("{}_{}_{}", "application_name", name, "bytes") (line 145)
formatted_metric(name) == "application_name" \o "_" \o name \o "_" \o "bytes"

\* GroupInsert with the bucket replaced instead of extended:
\* entries_group.insert(name, vec![entry])
GroupInsert_Replace(g, entry) ==
  [n \in (DOMAIN g) \cup {entry.name} |->
     IF n = entry.name THEN <<entry>> ELSE g[n]]

\* GroupInsert with the entry put at the front of its bucket:
\* entries.insert(0, entry)
GroupInsert_Prepend(g, entry) ==
  LET name == entry.name
      entries == IF name \in DOMAIN g THEN g[name] ELSE <<>>
  IN  [n \in (DOMAIN g) \cup {name} |->
         IF n = name THEN <<entry>> \o entries ELSE g[n]]

\* GroupInsert that pushes onto a copy of the bucket and inserts the bucket as
\* it was taken: the push is lost
GroupInsert_LostPush(g, entry) ==
  LET name == entry.name
      entries == IF name \in DOMAIN g THEN g[name] ELSE <<>>
  IN  [n \in (DOMAIN g) \cup {name} |->
         IF n = name THEN entries ELSE g[n]]

\* Body of the grouping loop (lines 137-140): remove the bucket of the entry's
\* name (or take an empty one), push the entry, insert the bucket back.
GroupInsert(g, entry) ==
  LET name == entry.name
      entries == IF name \in DOMAIN g THEN g[name] ELSE <<>>
  IN  [n \in (DOMAIN g) \cup {name} |->
         IF n = name THEN Append(entries, entry) ELSE g[n]]

\* FamilyType read from the last entry of the bucket instead of the first
FamilyType_Last(metric_entries) ==
  make_metric(metric_entries[Len(metric_entries)])[2]

\* The type that fixes a family's field_type: make_metric of metric_entries[0]
\* (lines 148-149)
FamilyType(metric_entries) == make_metric(metric_entries[1])[2]

\* pb_metrics of one bucket (lines 154-158)
FamilyMembers(metric_entries) ==
  [i \in 1..Len(metric_entries) |-> make_metric(metric_entries[i])[1]]

\* Body of the family loop (lines 145-163) for one bucket
MakeFamily(name, metric_entries) ==
  [name |-> formatted_metric(name),
   field_type |-> FamilyType(metric_entries),
   metric |-> FamilyMembers(metric_entries)]

\* names of the buckets the family loop has already visited
BuiltNames(c) == {n \in DOMAIN entries_group[c] :
                    \E i \in 1..Len(families[c]) :
                       families[c][i].name = formatted_metric(n)}

\* Reporter::get_unique_reporter_name (console.rs:18-20): self.reporter_name
get_unique_reporter_name(r) == reporter_name[r]

(* ------------------------ PrometheusReporter --------------------------- *)
\* PrometheusReporter::new (lines 38-44): tx is None; nothing is spawned.
\* ConsoleReporter::new (console.rs:24-29): no metrics.  Both store their name.
Init ==
  /\ tx = 0
  /\ dropped = FALSE
  /\ ret = "none"
  /\ chan = [c \in Chans |-> <<>>]
  /\ pc = [c \in Chans |-> "unspawned"]
  /\ entries_group = [c \in Chans |-> EmptyMap]
  /\ families = [c \in Chans |-> <<>>]
  /\ drained = [c \in Chans |-> <<>>]
  /\ sink = [c \in Chans |-> <<>>]
  /\ closedSeen = [c \in Chans |-> FALSE]
  /\ nAdds = 0
  /\ starts = 0
  /\ live = [k \in Numeric |-> 0]
  /\ metrics = <<>>
  /\ cpc = "new"
  /\ cidx = 1
  /\ out = <<>>
  /\ ticks = 0
  /\ added = <<>>
  /\ reporter_name = [r \in Reporters |-> NameGiven[r]]

\* AddResult with the None arm returning Ok(()) instead of the error
AddResult_NoneOk ==
  IF tx = 0 THEN "Ok"
  ELSE IF ReceiverAlive(tx) THEN "Ok"
  ELSE ChannelClosed

\* AddResult with tx.send(..).unwrap() instead of the match on its result
AddResult_Unwrap ==
  IF tx = 0 THEN NotStarted
  ELSE IF ReceiverAlive(tx) THEN "Ok"
  ELSE "panic"

\* What add returns for the current self.tx (lines 52-64)
AddResult ==
  IF tx = 0 THEN NotStarted
  ELSE IF ReceiverAlive(tx) THEN "Ok"
  ELSE ChannelClosed

\* AddSend on a channel of capacity one that rejects an entry when full
\* (sync_channel(1) with try_send)
AddSend_Bounded(entry) ==
  IF tx # 0 /\ ReceiverAlive(tx) /\ chan[tx] = <<>>
  THEN [chan EXCEPT ![tx] = Append(@, entry)]
  ELSE chan

\* The channels after the Some arm's tx.send(entry) (lines 53-58): the entry is
\* queued exactly when the receiver still exists; an unbounded channel has no
\* other condition.
AddSend(entry) ==
  IF tx # 0 /\ ReceiverAlive(tx)
  THEN [chan EXCEPT ![tx] = Append(@, entry)]
  ELSE chan

\* Add giving up its sender when the send fails: self.tx = None in the Err arm
Add_TakeSender(name, metric, labels) ==
  /\ ~dropped
  /\ nAdds < MaxAdds
  /\ ret' = AddResult
  /\ chan' = AddSend(PrometheusMetricEntry(nAdds + 1, name, metric, labels))
  /\ tx' = IF AddResult = ChannelClosed THEN 0 ELSE tx
  /\ nAdds' = nAdds + 1
  /\ UNCHANGED <<dropped, pc, entries_group, families, drained, sink,
                 closedSeen, starts, live, cvars, reporter_name>>

\* PrometheusReporter::add (lines 46-65)
Add(name, metric, labels) ==
  /\ ~dropped
  /\ nAdds < MaxAdds
  /\ ret' = AddResult
  /\ chan' = AddSend(PrometheusMetricEntry(nAdds + 1, name, metric, labels))
  /\ nAdds' = nAdds + 1
  /\ UNCHANGED <<tx, dropped, pc, entries_group, families, drained, sink,
                 closedSeen, starts, live, cvars, reporter_name>>

\* StartTx of a start that stops a started reporter: self.tx = None when a
\* sender is already held
StartTx_Toggle == IF tx = 0 THEN starts + 1 ELSE 0

\* The value start stores in self.tx (lines 68-69): the sender of a new channel
StartTx == starts + 1

\* PrometheusReporter::start (lines 67-79): a new channel, its sender stored in
\* self.tx (the previous sender, if any, is dropped), its receiver moved into a
\* newly spawned thread.
Start ==
  /\ ~dropped
  /\ starts < MaxStarts
  /\ starts' = starts + 1
  /\ tx' = StartTx
  /\ pc' = [pc EXCEPT ![starts + 1] = "bind"]
  /\ UNCHANGED <<dropped, ret, chan, entries_group, families, drained, sink,
                 closedSeen, nAdds, live, cvars, reporter_name>>

\* The reporter value goes out of scope (end of test::meter, line 203): its
\* sender is dropped with it.
Drop ==
  /\ ~dropped
  /\ dropped' = TRUE
  /\ UNCHANGED <<tx, ret, chan, pc, entries_group, families, drained, sink,
                 closedSeen, nAdds, starts, live, cvars, reporter_name>>

\* The producer changes a metric it shares with the reporter (c.inc(), g.set(v))
SetValue(k, v) ==
  /\ v # live[k]
  /\ live' = [live EXCEPT ![k] = v]
  /\ UNCHANGED <<pvars, cvars, reporter_name>>

(* --------------------------- export thread ----------------------------- *)
\* Pr::new(host_and_port); prometheus_reporter.start() returned Ok (lines 72-73);
\* the loop is entered and collect_to_send starts with an empty HashMap (line 133)
BindOk(c) ==
  /\ pc[c] = "bind"
  /\ pc' = [pc EXCEPT ![c] = "drain"]
  /\ UNCHANGED <<tx, dropped, ret, chan, entries_group, families, drained, sink,
                 closedSeen, nAdds, starts, live, cvars, reporter_name>>

\* BindFail of a thread that ignores the error (let _ = ..start()) and enters
\* the loop all the same
BindFail_Continue(c) ==
  /\ pc[c] = "bind"
  /\ pc' = [pc EXCEPT ![c] = "drain"]
  /\ UNCHANGED <<tx, dropped, ret, chan, entries_group, families, drained, sink,
                 closedSeen, nAdds, starts, live, cvars, reporter_name>>

\* prometheus_reporter.start() returned Err: unwrap panics (line 73), the thread
\* ends and the receiver it owns is destroyed with everything still queued.
BindFail(c) ==
  /\ pc[c] = "bind"
  /\ pc' = [pc EXCEPT ![c] = "dead"]
  /\ chan' = [chan EXCEPT ![c] = <<>>]
  /\ UNCHANGED <<tx, dropped, ret, entries_group, families, drained, sink,
                 closedSeen, nAdds, starts, live, cvars, reporter_name>>

\* recv of a drain that takes only what is queued now (metric_entries.try_iter()):
\* it never waits, and ends as soon as the queue is empty
recv_Try(c) ==
  IF chan[c] # <<>> THEN "Some" ELSE "None"

\* What the blocking receiver iterator of line 136 does next: it yields the
\* oldest queued entry, ends once the queue is empty and every sender is gone,
\* and otherwise waits.
recv(c) ==
  IF chan[c] # <<>> THEN "Some"
  ELSE IF SenderAlive(c) THEN "Wait"
  ELSE "None"

\* One turn of `for entry in metric_entries` (lines 136-141)
DrainRecv(c) ==
  /\ pc[c] = "drain"
  /\ recv(c) = "Some"
  /\ chan' = [chan EXCEPT ![c] = Tail(@)]
  /\ entries_group' = [entries_group EXCEPT ![c] = GroupInsert(@, Head(chan[c]))]
  /\ drained' = [drained EXCEPT ![c] = Append(@, Head(chan[c]))]
  /\ UNCHANGED <<tx, dropped, ret, pc, families, sink, closedSeen, nAdds,
                 starts, live, cvars, reporter_name>>

\* The iterator ends; families = Vec::new() (line 143)
DrainEnd(c) ==
  /\ pc[c] = "drain"
  /\ recv(c) = "None"
  /\ pc' = [pc EXCEPT ![c] = "build"]
  /\ closedSeen' = [closedSeen EXCEPT ![c] = TRUE]
  /\ families' = [families EXCEPT ![c] = <<>>]
  /\ UNCHANGED <<tx, dropped, ret, chan, entries_group, drained, sink, nAdds,
                 starts, live, cvars, reporter_name>>

\* One turn of `for (name, metric_entries) in &entries_group` (lines 144-164);
\* the HashMap yields its buckets in an order the code does not control.
BuildFamily(c, name) ==
  /\ pc[c] = "build"
  /\ name \in DOMAIN entries_group[c]
  /\ name \notin BuiltNames(c)
  /\ families' = [families EXCEPT
                    ![c] = Append(@, MakeFamily(name, entries_group[c][name]))]
  /\ UNCHANGED <<tx, dropped, ret, chan, pc, entries_group, drained, sink,
                 closedSeen, nAdds, starts, live, cvars, reporter_name>>

\* HandedOff with the family list kept from one call of collect_to_send to the
\* next: the list of the previous cycle followed by the families of this one
HandedOff_Accum(c) ==
  (IF sink[c] = <<>> THEN <<>> ELSE sink[c][Len(sink[c])]) \o families[c]

\* The list the loop passes to the sink (line 75): what collect_to_send returned
HandedOff(c) == families[c]

\* The family loop is over, collect_to_send returns families (line 165) and
\* prometheus_reporter.add receives them (line 75); thread::sleep begins (line 76)
HandOff(c) ==
  /\ pc[c] = "build"
  /\ BuiltNames(c) = DOMAIN entries_group[c]
  /\ sink' = [sink EXCEPT ![c] = Append(@, HandedOff(c))]
  /\ pc' = [pc EXCEPT ![c] = "sleep"]
  /\ UNCHANGED <<tx, dropped, ret, chan, entries_group, families, drained,
                 closedSeen, nAdds, starts, live, cvars, reporter_name>>

\* Where the thread goes when thread::sleep returns (lines 74-77): the loop has
\* no exit, it calls collect_to_send again
AfterSleep(c) == "drain"

\* thread::sleep returns (line 76) and the loop calls collect_to_send again,
\* which starts from an empty HashMap (line 133)
Wake(c) ==
  /\ pc[c] = "sleep"
  /\ Len(sink[c]) < MaxCycles
  /\ pc' = [pc EXCEPT ![c] = AfterSleep(c)]
  /\ entries_group' = [entries_group EXCEPT ![c] = EmptyMap]
  /\ families' = [families EXCEPT ![c] = <<>>]
  /\ drained' = [drained EXCEPT ![c] = <<>>]
  /\ UNCHANGED <<tx, dropped, ret, chan, sink, closedSeen, nAdds, starts,
                 live, cvars, reporter_name>>

\* Any step of export thread c
TaskStep(c) ==
  \/ BindOk(c)
  \/ BindFail(c)
  \/ DrainRecv(c)
  \/ DrainEnd(c)
  \/ \E name \in Names : BuildFamily(c, name)
  \/ HandOff(c)
  \/ Wake(c)

(* --------------------------- ConsoleReporter --------------------------- *)
\* ConsoleReporter::add (lines 31-33), callable only while the reporter has not
\* been moved into start
ConsoleAdd(metric) ==
  /\ cpc = "new"
  /\ Len(metrics) < MaxMetrics
  /\ metrics' = Append(metrics, metric)
  /\ added' = Append(added, IF metric \in Numeric THEN live[metric] ELSE 0)
  /\ UNCHANGED <<cpc, cidx, out, ticks, live, pvars, reporter_name>>

\* ConsoleReporter::start (lines 35-57): self is moved into the spawned thread
ConsoleStart ==
  /\ cpc = "new"
  /\ cpc' = "loop"
  /\ cidx' = 1
  /\ UNCHANGED <<metrics, out, ticks, added, live, pvars, reporter_name>>

\* ConsoleLine printing the value the metric had when it was added
ConsoleLine_AtAdd(i) ==
  IF metrics[i] \in Numeric
  THEN [kind |-> metrics[i], value |-> <<added[i]>>]
  ELSE [kind |-> "histogram", value |-> <<>>]

\* ConsoleLine of a loop that walks the metrics from the last added to the first:
\* for metric in self.metrics.iter().rev()
ConsoleLine_Reversed(i) ==
  LET k == Len(metrics) + 1 - i
  IN  IF metrics[k] \in Numeric
      THEN [kind |-> metrics[k], value |-> <<snapshot(metrics[k])>>]
      ELSE [kind |-> "histogram", value |-> <<>>]

\* The line println! writes for metric i (lines 39-52): the snapshot read when
\* the line is printed; a Histogram is owned by the reporter and printed itself
ConsoleLine(i) ==
  IF metrics[i] \in Numeric
  THEN [kind |-> metrics[i], value |-> <<snapshot(metrics[i])>>]
  ELSE [kind |-> "histogram", value |-> <<>>]

\* One turn of `for metric in &self.metrics` (lines 38-53)
ConsolePrint ==
  /\ cpc = "loop"
  /\ cidx <= Len(metrics)
  /\ out' = Append(out, ConsoleLine(cidx))
  /\ cidx' = cidx + 1
  /\ UNCHANGED <<metrics, cpc, ticks, added, live, pvars, reporter_name>>

\* The for loop is over; thread::sleep (line 54)
ConsoleSleep ==
  /\ cpc = "loop"
  /\ cidx > Len(metrics)
  /\ cpc' = "sleep"
  /\ ticks' = ticks + 1
  /\ UNCHANGED <<metrics, cidx, out, added, live, pvars, reporter_name>>

\* thread::sleep returns; the next tick starts the for loop again
ConsoleWake ==
  /\ cpc = "sleep"
  /\ ticks < MaxTicks
  /\ cpc' = "loop"
  /\ cidx' = 1
  /\ out' = <<>>
  /\ UNCHANGED <<metrics, ticks, added, live, pvars, reporter_name>>

(* --------------------------- specifications ---------------------------- *)
Next ==
  \/ \E s \in Submissions : Add(s[1], s[2], s[3])
  \/ Start
  \/ Drop
  \/ \E c \in Chans : TaskStep(c)

Spec == Init /\ [][Next]_vars

\* The threads are scheduled: a thread that can take a step eventually takes one.
\* Nothing obliges the callers of the reporter to make another call.
FairSpec == Spec /\ \A c \in Chans : WF_vars(TaskStep(c))

\* The queue of channel 1 as the adds 1..Len(q) of the submissions q leave it
QueueOf(q) ==
  [i \in 1..Len(q) |-> PrometheusMetricEntry(i, q[i][1], q[i][2], q[i][3])]

\* A reporter that was started once, given the submissions q and then dropped,
\* before its export thread ran.
CollectInit ==
  /\ tx = 1
  /\ dropped = TRUE
  /\ chan \in {[c \in Chans |-> IF c = 1 THEN QueueOf(q) ELSE <<>>] :
                 q \in QueueInputs}
  /\ ret = IF chan[1] = <<>> THEN "none" ELSE "Ok"
  /\ pc = [c \in Chans |-> IF c = 1 THEN "bind" ELSE "unspawned"]
  /\ entries_group = [c \in Chans |-> EmptyMap]
  /\ families = [c \in Chans |-> <<>>]
  /\ drained = [c \in Chans |-> <<>>]
  /\ sink = [c \in Chans |-> <<>>]
  /\ closedSeen = [c \in Chans |-> FALSE]
  /\ nAdds = Len(chan[1])
  /\ starts = 1
  /\ live = [k \in Numeric |-> 0]
  /\ metrics = <<>>
  /\ cpc = "new"
  /\ cidx = 1
  /\ out = <<>>
  /\ ticks = 0
  /\ added = <<>>
  /\ reporter_name = [r \in Reporters |-> NameGiven[r]]

CollectNext ==
  \/ \E c \in Chans : TaskStep(c)
  \/ \E k \in Mutable, v \in 0..MaxValue : SetValue(k, v)

CollectSpec == CollectInit /\ [][CollectNext]_vars

ConsoleNext ==
  \/ \E metric \in Kinds : ConsoleAdd(metric)
  \/ ConsoleStart
  \/ ConsolePrint
  \/ ConsoleSleep
  \/ ConsoleWake
  \/ \E k \in Mutable, v \in 0..MaxValue : SetValue(k, v)

ConsoleSpec == Init /\ [][ConsoleNext]_vars

(* ------------------------------ properties ----------------------------- *)
\* the reporter can be called: it exists, and the model's add budget is not spent
Callable == ~dropped /\ nAdds < MaxAdds

\* the entry the next add call builds from the arguments a
NextEntry(a) == [id |-> nAdds + 1, name |-> a[1], metric |-> a[2], labels |-> a[3]]

\* the ids of the entries that members of the families handed to sink c come from
DeliveredTo(c) ==
  {sink[c][h][j].metric[m].src :
     <<h, j, m>> \in {t \in (1..MaxCycles) \X (1..MaxAdds) \X (1..MaxAdds) :
                        /\ t[1] <= Len(sink[c])
                        /\ t[2] <= Len(sink[c][t[1]])
                        /\ t[3] <= Len(sink[c][t[1]][t[2]].metric)}}

\* how many members of hand-offs to any sink come from entry id
Deliveries(id) ==
  Cardinality({t \in Chans \X (1..MaxCycles) \X (1..MaxAdds) \X (1..MaxAdds) :
                 /\ t[2] <= Len(sink[t[1]])
                 /\ t[3] <= Len(sink[t[1]][t[2]])
                 /\ t[4] <= Len(sink[t[1]][t[2]][t[3]].metric)
                 /\ sink[t[1]][t[2]][t[3]].metric[t[4]].src = id})

\* entry id was enqueued on a channel whose export loop is running, and has not
\* been handed to the sink yet
Pending(id) ==
  \E c \in Chans :
     /\ pc[c] \in {"drain", "build", "sleep"}
     /\ \/ \E i \in 1..Len(chan[c]) : chan[c][i].id = id
        \/ \E i \in 1..Len(drained[c]) : drained[c][i].id = id
     /\ id \notin DeliveredTo(c)

\* C1: the drain step never waits: whenever an export thread is in its drain
\* step it can go on at once, to the next entry or, with no entry immediately
\* available, to the build and hand-off of the cycle.
C1_DrainNeverWaits ==
  \A c \in Chans : pc[c] = "drain" => ENABLED (DrainRecv(c) \/ DrainEnd(c))

\* C2: exactly-once delivery: no entry is a member of more than one emitted
\* family, and every entry enqueued on a channel whose export loop is running
\* is eventually a member of a family handed to the sink.
C2_ExactlyOnce ==
  /\ [](\A id \in 1..MaxAdds : Deliveries(id) <= 1)
  /\ \A id \in 1..MaxAdds : Pending(id) ~> (Deliveries(id) = 1)

\* C3: on a reporter on which start was never called, every add call, for every
\* name, metric kind and label set, returns the NotStarted error, enqueues
\* nothing and leaves the reporter not started; and every add call made so far
\* has done so.
C3_AddBeforeStartFails ==
  starts = 0 =>
    /\ tx = 0
    /\ ret \in {"none", NotStarted}
    /\ \A c \in Chans : chan[c] = <<>>
    /\ Callable =>
         \A a \in AddArgs :
            /\ ENABLED Add(a[1], a[2], a[3])
            /\ ~ENABLED (/\ Add(a[1], a[2], a[3])
                         /\ ~(ret' = NotStarted /\ chan' = chan /\ tx' = 0))

\* C3 witness: the add budget was spent on a reporter never started, and the
\* last call returned NotStarted.
C3_Witness == starts = 0 /\ nAdds = MaxAdds /\ ret = NotStarted

\* C4: on a started reporter whose export thread is alive, every add call, for
\* every name, kind and label set, can be made at once, returns Ok and appends
\* exactly its own entry to the channel of the current sender, whatever is
\* queued already and wherever the export thread is.
C4_AddAfterStartSucceeds ==
  (tx # 0 /\ ReceiverAlive(tx) /\ Callable) =>
    \A a \in AddArgs :
       /\ ENABLED Add(a[1], a[2], a[3])
       /\ ~ENABLED (/\ Add(a[1], a[2], a[3])
                    /\ ~(/\ ret' = "Ok"
                         /\ chan' = [chan EXCEPT ![tx] = Append(@, NextEntry(a))]
                         /\ tx' = tx))

\* C4 witness: an add returned Ok on a channel that already held an entry while
\* the export thread was in the middle of its drain.
C4_Witness ==
  /\ ret = "Ok"
  /\ tx # 0
  /\ pc[tx] = "drain"
  /\ Len(drained[tx]) >= 1
  /\ Len(chan[tx]) >= 1
  /\ chan[tx][Len(chan[tx])].id = nAdds

\* the family named after name in the family list f, as a set of indices
FamiliesOf(f, name) ==
  {j \in 1..Len(f) : f[j].name = "application_name_" \o name \o "_bytes"}

\* the positions of the entries named name in the entry sequence d
Occurrences(d, name) == {i \in 1..Len(d) : d[i].name = name}

\* the list export thread c handed to the sink in the cycle it is sleeping after
LastHandOff(c) == sink[c][Len(sink[c])]

\* C5: after each hand-off, for every name occurring k >= 1 times among the
\* entries drained in the cycle, the list handed over holds exactly one family
\* named application_name_<name>_bytes, with exactly k members, and as many
\* families as there are distinct names.
C5_OneFamilyPerName ==
  \A c \in Chans :
     pc[c] = "sleep" =>
       LET d == drained[c]
           f == LastHandOff(c)
       IN  /\ \A name \in Names :
                Occurrences(d, name) # {} =>
                  /\ Cardinality(FamiliesOf(f, name)) = 1
                  /\ \A j \in FamiliesOf(f, name) :
                        Len(f[j].metric) = Cardinality(Occurrences(d, name))
           /\ Len(f) = Cardinality({d[i].name : i \in 1..Len(d)})

\* C5 witness: a hand-off of a cycle that drained the same name twice.
C5_Witness ==
  /\ pc[1] = "sleep"
  /\ Len(sink[1]) = 1
  /\ \E name \in Names :
        /\ Cardinality(Occurrences(drained[1], name)) = 2
        /\ \E j \in FamiliesOf(LastHandOff(1), name) :
              Len(LastHandOff(1)[j].metric) = 2

\* the declared type of each metric kind
TypeOfKind(kind) ==
  CASE kind = "Counter" -> "COUNTER"
    [] kind = "Gauge" -> "GAUGE"
    [] kind = "Meter" -> "SUMMARY"
    [] kind = "Histogram" -> "HISTOGRAM"

\* the first entry named name in the entry sequence d
FirstOf(d, name) ==
  d[CHOOSE i \in Occurrences(d, name) : \A k \in Occurrences(d, name) : i <= k]

\* C6: after each hand-off, the declared type of every family handed over is the
\* type of the kind of the first entry drained under its name in the cycle.
C6_TypeOfFirstEntry ==
  \A c \in Chans :
     pc[c] = "sleep" =>
       \A name \in Names :
          \A j \in FamiliesOf(LastHandOff(c), name) :
             /\ Occurrences(drained[c], name) # {}
             /\ LastHandOff(c)[j].field_type =
                  TypeOfKind(FirstOf(drained[c], name).metric)

\* C6 witness: Counter then Gauge under "requests" gave one family of type
\* COUNTER with two members, the second a gauge.
C6_Witness ==
  /\ pc[1] = "sleep"
  /\ Len(sink[1]) = 1
  /\ Len(drained[1]) = 2
  /\ drained[1][1].metric = "Counter"
  /\ drained[1][2].metric = "Gauge"
  /\ \E j \in FamiliesOf(LastHandOff(1), "requests") :
        /\ LastHandOff(1)[j].field_type = "COUNTER"
        /\ Len(LastHandOff(1)[j].metric) = 2
        /\ LastHandOff(1)[j].metric[2].field = "gauge"

\* C7: an export thread that has observed its channel closed has ended: it is
\* never again in a drain step.
C7_ClosedEndsTask ==
  \A c \in Chans : closedSeen[c] => pc[c] # "drain"

\* C8: on a started reporter whose receiver has been destroyed, every add call
\* can be made at once and returns the ChannelClosed error value, enqueues
\* nothing and leaves the reporter started with the same sender.
C8_AddAfterReceiverGone ==
  (tx # 0 /\ ~ReceiverAlive(tx) /\ Callable) =>
    \A a \in AddArgs :
       /\ ENABLED Add(a[1], a[2], a[3])
       /\ ~ENABLED (/\ Add(a[1], a[2], a[3])
                    /\ ~(ret' = ChannelClosed /\ chan' = chan /\ tx' = tx))

\* C8 witness: an add returned ChannelClosed on a started reporter whose export
\* thread is dead.
C8_Witness == ret = ChannelClosed /\ tx # 0 /\ pc[tx] = "dead"

\* C9: the reporter never has more than one export thread.
C9_OneExportTask ==
  Cardinality({c \in Chans : pc[c] # "unspawned"}) <= 1

\* C10: every line the console loop prints for a numeric metric carries the
\* value the shared metric has when the line is printed.
C10_ConsolePrintsLive ==
  [][Len(out') = Len(out) + 1 =>
       LET i == Len(out')
       IN  metrics[i] \in Numeric =>
             out'[i] = [kind |-> metrics[i], value |-> <<live[metrics[i]]>>]]_vars

\* C10 witness: in the second tick a gauge whose value was changed after it was
\* added is printed with its current value.
C10_Witness ==
  /\ ticks = 1
  /\ cpc = "loop"
  /\ \E i \in 1..Len(out) :
        /\ metrics[i] = "Gauge"
        /\ added[i] # live["Gauge"]
        /\ out[i].value = <<live["Gauge"]>>

\* everything of the reporter, its channels and its export threads that an add
\* call could touch, apart from the value it returns
AddFrame == <<tx, dropped, chan, pc, entries_group, families, drained, sink,
              closedSeen, starts>>

\* C11: a failing add call affects no other submission: whenever the reporter
\* is not started or the receiver of its sender is gone, every add call can be
\* made, returns NotStarted or ChannelClosed and leaves the sender, every
\* channel, every export thread and every list handed to a sink as they were,
\* so that whatever the entries of other calls had ahead of them they still
\* have; and after an add has failed, every add made while the reporter is
\* started and its export thread alive returns Ok and enqueues its entry.
C11_FailingAddFrame ==
  /\ ((tx = 0 \/ ~ReceiverAlive(tx)) /\ Callable) =>
       \A a \in AddArgs :
          /\ ENABLED Add(a[1], a[2], a[3])
          /\ ~ENABLED (/\ Add(a[1], a[2], a[3])
                       /\ ~(/\ ret' \in {NotStarted, ChannelClosed}
                            /\ UNCHANGED AddFrame))
  /\ (ret \in {NotStarted, ChannelClosed} /\ tx # 0 /\ ReceiverAlive(tx)
        /\ Callable) =>
       \A a \in AddArgs :
          /\ ENABLED Add(a[1], a[2], a[3])
          /\ ~ENABLED (/\ Add(a[1], a[2], a[3])
                       /\ ~(/\ ret' = "Ok"
                            /\ chan' = [chan EXCEPT
                                          ![tx] = Append(@, NextEntry(a))]))

\* C11 witness: the second add failed with ChannelClosed, and the entry of the
\* first add, enqueued on the earlier channel, is in a family handed to the sink.
C11_Witness ==
  /\ ret = ChannelClosed
  /\ nAdds = 2
  /\ Deliveries(1) = 1
  /\ Deliveries(2) = 0

\* C12: get_unique_reporter_name returns the name given to new, after any
\* sequence of calls, for both reporter types: each type has the method, and
\* the method returns the name its new was called with.
C12_NameOfBothVariants ==
  \A r \in Reporters :
     /\ r \in ReporterImpls
     /\ get_unique_reporter_name(r) = NameGiven[r]

\* the entry ids of the sequence s of entries are in increasing order, that is
\* in the order of the add calls that made them
InAddOrder(s) == \A i, j \in 1..Len(s) : i < j => s[i].id < s[j].id

\* C13: the channel hands its entries over in the order they were sent (what
\* is queued is in add order, what was received in this cycle is in add order
\* and was sent before everything still queued), and in every family handed to
\* a sink the members are in the order their entries were sent.
C13_SubmissionOrder ==
  \A c \in Chans :
     /\ InAddOrder(drained[c] \o chan[c])
     /\ \A h \in 1..Len(sink[c]) :
           \A j \in 1..Len(sink[c][h]) :
              LET members == sink[c][h][j].metric
              IN  \A i, k \in 1..Len(members) :
                     i < k => members[i].src < members[k].src

\* C13 witness: a family with two members was handed over, the member of the
\* first add call before the member of the second.
C13_Witness ==
  \E c \in Chans :
     /\ Len(sink[c]) >= 1
     /\ \E j \in 1..Len(sink[c][1]) :
           /\ Len(sink[c][1][j].metric) = 2
           /\ sink[c][1][j].metric[1].src = 1
           /\ sink[c][1][j].metric[2].src = 2

\* the ids of the entries that the members of the family list f come from
SourcesOf(f) ==
  {f[j].metric[i].src :
     <<j, i>> \in {t \in (1..Len(f)) \X (1..(MaxAdds + 1)) :
                     t[2] <= Len(f[t[1]].metric)}}

\* the positions an export thread passes through, in the order of its code
CycleOrder ==
  {<<"unspawned", "bind">>, <<"bind", "drain">>, <<"bind", "dead">>,
   <<"drain", "build">>, <<"build", "sleep">>, <<"sleep", "drain">>}

\* C14: every cycle of the export loop runs drain, build, hand-off, sleep in
\* that order: a thread changes position only along that order; entries are
\* received only in the drain step and families built only in the build step;
\* the sink is called only at the end of the build step, once, with a list
\* that holds one family per name drained in this cycle and members from
\* exactly the entries drained in this cycle; and the drain that follows a
\* sleep starts with nothing kept from the cycle before.
C14_CycleOrder ==
  [][\A c \in Chans :
       /\ pc'[c] # pc[c] => <<pc[c], pc'[c]>> \in CycleOrder
       /\ (drained'[c] # drained[c] /\ pc'[c] = pc[c]) => pc[c] = "drain"
       /\ families'[c] # families[c] => pc[c] \in {"drain", "build", "sleep"}
       /\ (families'[c] # families[c] /\ pc'[c] = pc[c]) => pc[c] = "build"
       /\ (pc[c] = "build" /\ pc'[c] = "sleep") => Len(sink'[c]) = Len(sink[c]) + 1
       /\ sink'[c] # sink[c] =>
            /\ pc[c] = "build" /\ pc'[c] = "sleep"
            /\ Len(sink'[c]) = Len(sink[c]) + 1
            /\ SubSeq(sink'[c], 1, Len(sink[c])) = sink[c]
            /\ LET f == sink'[c][Len(sink'[c])]
               IN  /\ SourcesOf(f) = {drained[c][i].id : i \in 1..Len(drained[c])}
                   /\ Len(f) = Cardinality({drained[c][i].name :
                                             i \in 1..Len(drained[c])})
       /\ (pc[c] = "sleep" /\ pc'[c] = "drain") =>
            /\ drained'[c] = <<>>
            /\ entries_group'[c] = EmptyMap
            /\ families'[c] = <<>>]_vars

\* C14 witness: a thread sleeps after its second hand-off, and its first
\* hand-off carried two families.
C14_Witness ==
  \E c \in Chans :
     /\ pc[c] = "sleep"
     /\ Len(sink[c]) = 2
     /\ Len(sink[c][1]) = 2

\* the entries of the sequence d that go into the family named fname, in order
BucketOf(d, fname) ==
  SelectSeq(d, LAMBDA e : "application_name_" \o e.name \o "_bytes" = fname)

\* member mem is what the claim says an entry e gives, the shared counter and
\* gauge holding the values val: the field of e's own kind, with the value of
\* that kind for a counter or gauge and nothing for a meter or histogram, and
\* one label pair per label of e
MemberOf(e, mem, val) ==
  /\ e.metric = "Counter" => mem.field = "counter" /\ mem.payload = <<val["Counter"]>>
  /\ e.metric = "Gauge" => mem.field = "gauge" /\ mem.payload = <<val["Gauge"]>>
  /\ e.metric = "Meter" => mem.field = "summary" /\ mem.payload = <<>>
  /\ e.metric = "Histogram" => mem.field = "histogram" /\ mem.payload = <<>>
  /\ Len(mem.label) = Cardinality(e.labels)
  /\ {mem.label[k] : k \in 1..Len(mem.label)} =
       {[name |-> p[1], value |-> p[2]] : p \in e.labels}

\* C15: whenever the family loop builds a family, it has one member per entry
\* drained under its name, and the i-th member carries the payload of the
\* variant of the i-th such entry (counter or gauge field with the value the
\* shared metric has at that moment, empty summary, empty histogram) and that
\* entry's labels, whatever type the family declares.
C15_MemberOfOwnEntry ==
  [][\A c \in Chans :
       Len(families'[c]) = Len(families[c]) + 1 =>
         LET fam == families'[c][Len(families'[c])]
             bucket == BucketOf(drained[c], fam.name)
         IN  /\ Len(fam.metric) = Len(bucket)
             /\ \A i \in 1..Len(bucket) :
                   /\ fam.metric[i].src = bucket[i].id
                   /\ MemberOf(bucket[i], fam.metric[i], live)]_vars

\* C15 witness: a family declared COUNTER was handed over whose first member
\* is a counter with value MaxValue and no label, and whose second member is a
\* gauge with the label pair of its own entry.
C15_Witness ==
  /\ Len(sink[1]) >= 1
  /\ \E j \in 1..Len(sink[1][1]) :
        LET fam == sink[1][1][j]
        IN  /\ fam.field_type = "COUNTER"
            /\ Len(fam.metric) = 2
            /\ fam.metric[1].field = "counter"
            /\ fam.metric[1].payload = <<MaxValue>>
            /\ fam.metric[1].label = <<>>
            /\ fam.metric[2].field = "gauge"
            /\ fam.metric[2].label = <<[name |-> "env", value |-> "prod"]>>

\* C16: the step from NotStarted to Started is one-way: once start has been
\* called the reporter holds a sender in every later state, no step of any kind
\* takes the sender away, and no add call made after a start returns NotStarted.
C16_StartedForGood ==
  [][/\ starts > 0 => tx # 0
     /\ starts' > 0 => tx' # 0
     /\ tx # 0 => tx' # 0
     /\ (starts > 0 /\ nAdds' # nAdds) => ret' # NotStarted]_vars

\* C16 witness: start was called twice, and an add made after the second call
\* returned Ok and its entry is on the channel of the second sender.
C16_Witness ==
  /\ starts = 2
  /\ tx = 2
  /\ ret = "Ok"
  /\ nAdds >= 1
  /\ \E i \in 1..Len(chan[2]) : chan[2][i].id = nAdds

\* C17: a failure to bind the sink is fatal to the export thread: from the bind
\* the failure can happen and always leaves the thread dead with nothing handed
\* to its sink; a dead thread has drained nothing and handed nothing over,
\* takes no further step (no drain, no hand-off, no second bind), is not
\* brought back by any call on the reporter, and the entries sent to it are
\* gone: none is queued for it and none has reached a sink.
C17_BindFailureFatal ==
  \A c \in Chans :
     /\ pc[c] = "bind" =>
          /\ ENABLED BindFail(c)
          /\ ~ENABLED (/\ BindFail(c)
                       /\ ~(pc'[c] = "dead" /\ sink'[c] = <<>> /\ chan'[c] = <<>>))
     /\ pc[c] = "dead" =>
          /\ sink[c] = <<>>
          /\ drained[c] = <<>>
          /\ entries_group[c] = EmptyMap
          /\ chan[c] = <<>>
          /\ ~closedSeen[c]
          /\ ~ENABLED TaskStep(c)
          /\ ~ENABLED (Next /\ (pc'[c] # "dead" \/ chan'[c] # <<>>))

\* C17 witness: the one add call returned Ok on the channel of a thread that
\* then failed to bind; the thread is dead and its sink has received nothing.
C17_Witness ==
  /\ starts = 1
  /\ nAdds = 1
  /\ ret = "Ok"
  /\ pc[1] = "dead"
  /\ sink[1] = <<>>

\* what the line printed for a metric of kind k is labelled with
LineKind(k) == IF k \in Numeric THEN k ELSE "histogram"

\* C18: before start every add call appends its metric to the list; from start
\* on the list never changes, the export thread is always in its loop or in
\* its sleep and never anywhere else, the lines printed so far in a tick are
\* the lines of the first metrics of the list, one each and in the order of the
\* add calls, a tick ends in the sleep only with exactly one line per metric,
\* and the thread always has a next step: the next line or the sleep while in
\* the loop, the next tick, starting with no line printed, while asleep.
C18_ConsoleTick ==
  /\ (cpc = "new" /\ Len(metrics) < MaxMetrics) =>
       \A k \in Kinds :
          /\ ENABLED ConsoleAdd(k)
          /\ ~ENABLED (ConsoleAdd(k) /\ metrics' # Append(metrics, k))
  /\ cpc # "new" =>
       /\ cpc \in {"loop", "sleep"}
       /\ ~ENABLED (ConsoleNext /\ metrics' # metrics)
       /\ ~ENABLED (ConsoleNext /\ cpc' \notin {"loop", "sleep"})
       /\ Len(out) <= Len(metrics)
       /\ \A i \in 1..Len(out) : out[i].kind = LineKind(metrics[i])
       /\ cpc = "loop" =>
            /\ Len(out) = cidx - 1
            /\ ENABLED (ConsolePrint \/ ConsoleSleep)
            /\ ~ENABLED (ConsoleSleep /\ Len(out) # Len(metrics))
       /\ cpc = "sleep" =>
            /\ Len(out) = Len(metrics)
            /\ ticks >= 1
            /\ ticks < MaxTicks => ENABLED ConsoleWake
            /\ ~ENABLED (ConsoleWake /\ ~(cpc' = "loop" /\ out' = <<>>))
            /\ ~ENABLED (ConsolePrint \/ ConsoleSleep)

\* C18 witness: the thread sleeps after its second tick, in which it printed a
\* meter line and then a histogram line for the metrics added in that order.
C18_Witness ==
  /\ cpc = "sleep"
  /\ ticks = 2
  /\ metrics = <<"Meter", "Histogram">>
  /\ Len(out) = 2
  /\ out[1].kind = "Meter"
  /\ out[2].kind = "histogram"

\* C19: every bucket the grouper holds, during the drain and when it ends, has
\* at least one entry, so the first entry that fixes the declared type exists;
\* and every family built or handed to a sink has at least one member.
C19_NoEmptyBucket ==
  \A c \in Chans :
     /\ \A name \in DOMAIN entries_group[c] : Len(entries_group[c][name]) >= 1
     /\ \A j \in 1..Len(families[c]) : Len(families[c][j].metric) >= 1
     /\ \A h \in 1..Len(sink[c]) :
           \A j \in 1..Len(sink[c][h]) : Len(sink[c][h][j].metric) >= 1

\* C19 witness: the drain has ended with two buckets, and the family of one of
\* them has been built.
C19_Witness ==
  /\ pc[1] = "build"
  /\ DOMAIN entries_group[1] = Names
  /\ Len(families[1]) = 1

====
